---- MODULE Spec2Model ----
(***************************************************************************)
(* Model of the workshop feedback server (src/app.py): the in-memory       *)
(* session store, the Socket.IO rooms, and the handlers that mutate them.  *)
(*                                                                         *)
(* Spec      : every handler runs to completion before the next one starts *)
(*             (one event-processing flow).                                *)
(* SpecConc  : the Socket.IO handlers run in threads, one per channel, and *)
(*             are interleaved between their statements.                   *)
(*                                                                         *)
(* Timestamps ('created_at') are not modelled: no handler reads them.      *)
(***************************************************************************)
EXTENDS Integers, Sequences, FiniteSets, TLC

\* ---------------------------------------------------------------- bounds
MaxIds      == 3      \* identifiers uuid4 hands out in one run
MaxReq      == 5      \* requests the server receives in one run
MaxItems    == 3      \* feedback items of a session given to export_session

\* session codes generate_session_code can return
Codes == {1, 2}

\* connected Socket.IO clients (request.sid)
Channels == {1, 2}

\* identifiers a payload can name
Ids == 1..MaxIds

\* data.get('user_id', 'anonymous'): NoUser stands for a payload without the key
NoUser  == "<absent>"
UserArgs == {"u1", NoUser}

\* data.get('feedback_id'): None when the payload has no such key
NoId == 0

\* Texts a client can send, as sequences of characters.
Texts == { <<>>, <<" ">>, <<"\t", " ">>, <<"x">>, <<" ", "x", "\n">> }

VARIABLES
    sessions,   \* code -> [feedbacks: list of feedback dicts]       (app.py:18)
    rooms,      \* code -> set of channels in the Socket.IO room     (join_room)
    inbox,      \* channel -> list of events emitted to that channel (emit)
    nextId,     \* number of identifiers uuid4 has handed out so far
    nreq,       \* number of requests received so far
    last,       \* the request whose handler ran (or started) last, with the
                \* response of an HTTP route that returns data
    pc,         \* channel -> position of its handler thread
    loc         \* channel -> locals of its handler thread

vars == <<sessions, rooms, inbox, nextId, nreq, last, pc, loc>>

\* ------------------------------------------------------- pure functions

\* str.strip(): drop leading and trailing whitespace
Whitespace == {" ", "\t", "\n"}

RECURSIVE lstrip(_)
lstrip(t) ==
    IF t = <<>> THEN <<>>
    ELSE IF Head(t) \in Whitespace THEN lstrip(Tail(t)) ELSE t

RECURSIVE rstrip(_)
rstrip(t) ==
    IF t = <<>> THEN <<>>
    ELSE IF t[Len(t)] \in Whitespace THEN rstrip(SubSeq(t, 1, Len(t) - 1)) ELSE t

\* mutant of strip: the text is used as received
stripNothing(t) == t

strip(t) == rstrip(lstrip(t))

\* data.get('user_id', 'anonymous')
UserIdOf(arg) == IF arg = NoUser THEN "anonymous" ELSE arg

\* mutant of uuid4: the identifier handed out last is handed out again
uuid4Repeated == IF nextId = 0 THEN 1 ELSE nextId

\* str(uuid.uuid4()): an identifier never handed out before
uuid4 == nextId + 1

\* `x in list`
InList(x, list) == \E i \in 1..Len(list) : list[i] = x

\* mutant of FindById: an unmatched identifier falls back to the first element
FindByIdOrFirst(list, id) ==
    IF \E i \in 1..Len(list) : list[i].id = id
    THEN CHOOSE i \in 1..Len(list) : list[i].id = id
    ELSE IF list = << >> THEN 0 ELSE 1

\* index of the first element of `list` whose 'id' is `id`, 0 when there is none
\* (the `for ... if x['id'] == id: ... break` loops)
FindById(list, id) ==
    IF \E i \in 1..Len(list) : list[i].id = id
    THEN CHOOSE i \in 1..Len(list) :
            /\ list[i].id = id
            /\ \A j \in 1..(i - 1) : list[j].id # id
    ELSE 0

\* ---------------------------------------------------------------- events

\* mutant of JoinedEvent: the snapshot is taken before the latest item
JoinedEventStale(code, feedbacks) ==
    [type |-> "joined", code |-> code,
     feedbacks |-> SubSeq(feedbacks, 1, Len(feedbacks) - 1)]

JoinedEvent(code, feedbacks) ==
    [type |-> "joined", code |-> code, feedbacks |-> feedbacks]

ErrorEvent == [type |-> "error", message |-> "Session not found"]

FeedbackAdded(feedback) == [type |-> "feedback_added", item |-> feedback]

CommentAdded(feedback_id, comment) ==
    [type |-> "comment_added", feedback_id |-> feedback_id, comment |-> comment]

VoteUpdatedFeedback(item_id, votes) ==
    [type |-> "vote_updated", item_id |-> item_id, votes |-> votes,
     is_comment |-> FALSE]

VoteUpdatedComment(item_id, votes, feedback_id) ==
    [type |-> "vote_updated", item_id |-> item_id, votes |-> votes,
     is_comment |-> TRUE, feedback_id |-> feedback_id]

\* mutant of EmitTo: the event goes to every connected channel
EmitToEveryone(ch, event) == [c \in Channels |-> Append(inbox[c], event)]

\* emit(event): to the calling channel only
EmitTo(ch, event) == [inbox EXCEPT ![ch] = Append(@, event)]

\* mutant of EmitRoom: the event goes to every channel (broadcast=True)
EmitRoomBroadcast(ch, code, event) == [c \in Channels |-> Append(inbox[c], event)]

\* mutant of EmitRoom: the calling channel is skipped (include_self=False)
EmitRoomSkipSelf(ch, code, event) ==
    [c \in Channels |-> IF c \in rooms[code] /\ c # ch THEN Append(inbox[c], event)
                        ELSE inbox[c]]

\* emit(event, room=code), called in the handler of channel ch: to every channel
\* in the room; include_self defaults to True, so ch is not skipped
EmitRoom(ch, code, event) ==
    [c \in Channels |-> IF c \in rooms[code] THEN Append(inbox[c], event)
                        ELSE inbox[c]]

\* ------------------------------------------------------------------ init

\* the threads that run create_session in the concurrent specification
Workers == {101, 102}

\* every thread with a position: the handler thread of each channel, the workers
Threads == Channels \cup Workers

Idle == [op |-> "idle"]

Init ==
    /\ sessions = << >>
    /\ rooms = [c \in Codes |-> {}]
    /\ inbox = [c \in Channels |-> << >>]
    /\ nextId = 0
    /\ nreq = 0
    /\ last = [op |-> "none"]
    /\ pc = [c \in Threads |-> "idle"]
    /\ loc = [c \in Threads |-> Idle]

\* a request arrives: `last` records it
Receive(request) ==
    /\ nreq < MaxReq
    /\ nreq' = nreq + 1
    /\ last' = request

\* ------------------------------------------------- HTTP routes (atomic)

\* POST /api/create-session
create_session ==
    /\ \E code \in Codes \ DOMAIN sessions :
          /\ sessions' = [c \in DOMAIN sessions \cup {code} |->
                            IF c = code THEN [feedbacks |-> << >>]
                            ELSE sessions[c]]
          /\ Receive([op |-> "create_session", code |-> code])
    /\ UNCHANGED <<rooms, inbox, nextId, pc, loc>>

\* mutant of close_session: the session is acknowledged as closed but kept
close_session_kept(code) ==
    /\ Receive([op |-> "close_session", code |-> code])
    /\ UNCHANGED <<sessions, rooms, inbox, nextId, pc, loc>>

\* POST /api/session/<code>/close
close_session(code) ==
    /\ sessions' = IF code \in DOMAIN sessions
                   THEN [c \in DOMAIN sessions \ {code} |-> sessions[c]]
                   ELSE sessions
    /\ Receive([op |-> "close_session", code |-> code])
    /\ UNCHANGED <<rooms, inbox, nextId, pc, loc>>

\* sessions[code]['feedbacks'] replaced by fbs
WithFeedbacks(code, fbs) == [sessions EXCEPT ![code].feedbacks = fbs]

\* jsonify({'error': 'Session not found'}), 404
NotFoundResponse == [status |-> 404, body |-> [error |-> "Session not found"]]

\* GET /api/session/<code>; the response is recorded with the request
get_session(code) ==
    /\ Receive([op |-> "get_session", code |-> code,
                response |-> IF code \notin DOMAIN sessions THEN NotFoundResponse
                             ELSE [status |-> 200, body |-> sessions[code]]])
    /\ UNCHANGED <<sessions, rooms, inbox, nextId, pc, loc>>

Reverse(list) == [i \in 1..Len(list) |-> list[Len(list) + 1 - i]]

\* x put into a list sorted by ascending votes, behind the elements that do not
\* have more votes than x
InsertByVotes(list, x) ==
    LET n == Cardinality({i \in 1..Len(list) : list[i].votes <= x.votes})
    IN  SubSeq(list, 1, n) \o << x >> \o SubSeq(list, n + 1, Len(list))

\* list.sort by key 'votes': stable and ascending
RECURSIVE SortByVotes(_)
SortByVotes(list) ==
    IF list = << >> THEN << >>
    ELSE InsertByVotes(SortByVotes(SubSeq(list, 1, Len(list) - 1)), list[Len(list)])

\* mutant of SortedFeedbacks: sorted ascending and then reversed
SortedThenReversed(feedbacks) == Reverse(SortByVotes(feedbacks))

\* sorted(feedbacks, key=lambda x: x['votes'], reverse=True): with reverse=True the
\* list is reversed, sorted stably, and reversed again
SortedFeedbacks(feedbacks) == Reverse(SortByVotes(Reverse(feedbacks)))

\* the md_lines of one feedback item, numbered i
RECURSIVE CommentLines(_)
CommentLines(comments) ==
    IF comments = << >> THEN << >>
    ELSE << <<"comment", Head(comments).text, Head(comments).votes>> >>
         \o CommentLines(Tail(comments))

ItemLines(i, fb) ==
    << <<"item", i, fb.text>>, <<"votes", fb.votes>>, <<"blank">> >>
    \o (IF fb.comments = << >> THEN << >>
        ELSE << <<"comments">> >> \o CommentLines(fb.comments) \o << <<"blank">> >>)

RECURSIVE FeedbackLines(_, _)
FeedbackLines(i, fbs) ==
    IF fbs = << >> THEN << >>
    ELSE ItemLines(i, Head(fbs)) \o FeedbackLines(i + 1, Tail(fbs))

\* the markdown document, line by line (the two timestamps are not modelled)
Markdown(code, sorted_feedbacks) ==
    << <<"title">>, <<"blank">>, <<"code", code>>, <<"created">>, <<"exported">>,
       <<"blank">>, <<"rule">>, <<"blank">>,
       <<"count", Len(sorted_feedbacks)>>, <<"blank">> >>
    \o FeedbackLines(1, sorted_feedbacks)

\* mutant of export_session: the session's own list is sorted in place
export_session_in_place(code) ==
    /\ sessions' = IF code \in DOMAIN sessions
                   THEN WithFeedbacks(code, SortedFeedbacks(sessions[code].feedbacks))
                   ELSE sessions
    /\ Receive([op |-> "export_session", code |-> code,
                response |-> IF code \notin DOMAIN sessions THEN NotFoundResponse
                             ELSE [status |-> 200,
                                   markdown |-> Markdown(code,
                                       SortedFeedbacks(sessions[code].feedbacks))]])
    /\ UNCHANGED <<rooms, inbox, nextId, pc, loc>>

\* GET /api/session/<code>/export
export_session(code) ==
    /\ Receive([op |-> "export_session", code |-> code,
                response |-> IF code \notin DOMAIN sessions THEN NotFoundResponse
                             ELSE [status |-> 200,
                                   markdown |-> Markdown(code,
                                       SortedFeedbacks(sessions[code].feedbacks))]])
    /\ UNCHANGED <<sessions, rooms, inbox, nextId, pc, loc>>

\* ------------------------------------------------------ handler payloads

JoinArgs == [code : Codes]

FeedbackArgs == [code : Codes, text : Texts]

CommentArgs == [code : Codes, feedback_id : Ids, text : Texts]

VoteArgs ==
    [code : Codes, item_id : Ids, user_id : UserArgs,
     is_comment : {FALSE}, feedback_id : {NoId}]
    \cup
    [code : Codes, item_id : Ids, user_id : UserArgs,
     is_comment : {TRUE}, feedback_id : Ids]

Request(op, ch, data) == [op |-> op, ch |-> ch, data |-> data]

\* --------------------------------------------------- handler components

\* `if not text or code not in sessions: return`
Rejected(code, text) == text = << >> \/ code \notin DOMAIN sessions

\* the feedback dict on_new_feedback builds
NewFeedback(id, text) ==
    [id |-> id, text |-> text, votes |-> 0, voters |-> << >>, comments |-> << >>]

\* the comment dict on_new_comment builds
NewComment(id, text) ==
    [id |-> id, text |-> text, votes |-> 0, voters |-> << >>]

\* The entity a vote addresses, as <<feedback index, comment index>>; the comment
\* index is 0 for the feedback item itself, and <<0, 0>> when no entity matches.
NoTarget == <<0, 0>>

VoteTarget(fbs, data) ==
    IF data.is_comment
    THEN LET i == FindById(fbs, data.feedback_id) IN
         IF i = 0 THEN NoTarget
         ELSE LET j == FindById(fbs[i].comments, data.item_id) IN
              IF j = 0 THEN NoTarget ELSE <<i, j>>
    ELSE LET i == FindById(fbs, data.item_id) IN
         IF i = 0 THEN NoTarget ELSE <<i, 0>>

GetEntity(fbs, t) == IF t[2] = 0 THEN fbs[t[1]] ELSE fbs[t[1]].comments[t[2]]

SetEntity(fbs, t, e) ==
    IF t[2] = 0 THEN [fbs EXCEPT ![t[1]] = e]
    ELSE [fbs EXCEPT ![t[1]].comments[t[2]] = e]

\* mutant of AlreadyVoted: the membership test is dropped
NeverVoted(e, user_id) == FALSE

\* `user_id in entity['voters']`
AlreadyVoted(e, user_id) == InList(user_id, e.voters)

\* mutant of RecordVote: the voter is counted without being recorded
RecordVoteUnrecorded(e, user_id) == [e EXCEPT !.votes = @ + 1]

\* entity['voters'].append(user_id); entity['votes'] += 1
RecordVote(e, user_id) ==
    [e EXCEPT !.voters = Append(@, user_id), !.votes = @ + 1]

\* the vote_updated payload
VoteEvent(data, votes) ==
    IF data.is_comment
    THEN VoteUpdatedComment(data.item_id, votes, data.feedback_id)
    ELSE VoteUpdatedFeedback(data.item_id, votes)

\* ------------------------------------- Socket.IO handlers, run atomically

on_join(ch, data) ==
    /\ Receive(Request("join", ch, data))
    /\ IF data.code \in DOMAIN sessions
       THEN /\ rooms' = [rooms EXCEPT ![data.code] = @ \cup {ch}]
            /\ inbox' = EmitTo(ch, JoinedEvent(data.code,
                                               sessions[data.code].feedbacks))
       ELSE /\ inbox' = EmitTo(ch, ErrorEvent)
            /\ UNCHANGED rooms
    /\ UNCHANGED <<sessions, nextId, pc, loc>>

on_new_feedback(ch, data) ==
    LET code == data.code
        text == strip(data.text)
    IN  /\ Receive(Request("new_feedback", ch, data))
        /\ IF Rejected(code, text)
           THEN UNCHANGED <<sessions, inbox, nextId>>
           ELSE LET feedback == NewFeedback(uuid4, text) IN
                /\ nextId < MaxIds
                /\ nextId' = nextId + 1
                /\ sessions' = WithFeedbacks(code,
                                   Append(sessions[code].feedbacks, feedback))
                /\ inbox' = EmitRoom(ch, code, FeedbackAdded(feedback))
        /\ UNCHANGED <<rooms, pc, loc>>

on_new_comment(ch, data) ==
    LET code == data.code
        text == strip(data.text)
    IN  /\ Receive(Request("new_comment", ch, data))
        /\ IF Rejected(code, text)
           THEN UNCHANGED <<sessions, inbox, nextId>>
           ELSE LET fbs == sessions[code].feedbacks
                    i == FindById(fbs, data.feedback_id)
                IN  IF i = 0
                    THEN UNCHANGED <<sessions, inbox, nextId>>
                    ELSE LET comment == NewComment(uuid4, text) IN
                         /\ nextId < MaxIds
                         /\ nextId' = nextId + 1
                         /\ sessions' = WithFeedbacks(code,
                                [fbs EXCEPT ![i].comments = Append(@, comment)])
                         /\ inbox' = EmitRoom(ch, code,
                                CommentAdded(data.feedback_id, comment))
        /\ UNCHANGED <<rooms, pc, loc>>

on_vote(ch, data) ==
    LET code == data.code
        user_id == UserIdOf(data.user_id)
    IN  /\ Receive(Request("vote", ch, data))
        /\ IF code \notin DOMAIN sessions
           THEN UNCHANGED <<sessions, inbox>>
           ELSE LET fbs == sessions[code].feedbacks
                    t == VoteTarget(fbs, data)
                IN  IF t = NoTarget \/ AlreadyVoted(GetEntity(fbs, t), user_id)
                    THEN UNCHANGED <<sessions, inbox>>
                    ELSE LET e == RecordVote(GetEntity(fbs, t), user_id) IN
                         /\ sessions' = WithFeedbacks(code, SetEntity(fbs, t, e))
                         /\ inbox' = EmitRoom(ch, code, VoteEvent(data, e.votes))
        /\ UNCHANGED <<rooms, nextId, pc, loc>>

\* ---------------------------------------------- sequential specification

Next ==
    \/ create_session
    \/ \E code \in Codes : close_session(code)
    \/ \E code \in Codes : get_session(code)
    \/ \E code \in Codes : export_session(code)
    \/ \E ch \in Channels, data \in JoinArgs : on_join(ch, data)
    \/ \E ch \in Channels, data \in FeedbackArgs : on_new_feedback(ch, data)
    \/ \E ch \in Channels, data \in CommentArgs : on_new_comment(ch, data)
    \/ \E ch \in Channels, data \in VoteArgs : on_vote(ch, data)

Spec == Init /\ [][Next]_vars

\* ---------------------------------------------- concurrent specification
\* Flask-SocketIO runs each event handler in a thread of its own (threading mode)
\* and app.py takes no lock, so handlers interleave between their statements;
\* `entity['votes'] += 1` is a read followed by a write. There is one handler
\* thread per channel, and create_session runs in a worker thread, its check
\* and its insert being two steps. A thread holds its payload and the entity it works on in
\* loc[ch]; an entity is held as its position in the session's lists, which is
\* stable because the lists only grow while the session is open. close_session is
\* taken in one step; it and the insert of create_session are taken only while no
\* handler is at work on the session, so a held entity is always in the store.

Working(ch, code) == pc[ch] # "idle" /\ loc[ch].data.code = code

\* the entity the thread of ch holds
Held(ch) == GetEntity(sessions[loc[ch].data.code].feedbacks, loc[ch].t)

\* the store after the thread of ch has stored e into the entity it holds
WithHeld(ch, e) ==
    LET code == loc[ch].data.code IN
    WithFeedbacks(code, SetEntity(sessions[code].feedbacks, loc[ch].t, e))

\* close_session is taken only while no handler is at work on the code
close_session_quiet(code) ==
    /\ \A ch \in Channels : ~Working(ch, code)
    /\ close_session(code)

\* create_session up to the end of `while code in sessions`: the worker leaves the
\* loop with a code that is not in the store at that moment
create_begin(w) ==
    /\ pc[w] = "idle"
    /\ \E code \in Codes \ DOMAIN sessions :
          /\ Receive([op |-> "create_session", code |-> code])
          /\ loc' = [loc EXCEPT ![w] = [code |-> code]]
    /\ pc' = [pc EXCEPT ![w] = "create_insert"]
    /\ UNCHANGED <<sessions, rooms, inbox, nextId>>

\* sessions[code] = {'created_at': ..., 'feedbacks': []}, whatever the store holds
\* under code by now; taken only while no handler is at work on the code
create_insert(w) ==
    LET code == loc[w].code IN
    /\ pc[w] = "create_insert"
    /\ \A ch \in Channels : ~Working(ch, code)
    /\ sessions' = [c \in DOMAIN sessions \cup {code} |->
                      IF c = code THEN [feedbacks |-> << >>] ELSE sessions[c]]
    /\ pc' = [pc EXCEPT ![w] = "idle"]
    /\ loc' = [loc EXCEPT ![w] = Idle]
    /\ UNCHANGED <<rooms, inbox, nextId, nreq, last>>

\* on_join up to join_room(code)
join_begin(ch, data) ==
    /\ pc[ch] = "idle"
    /\ Receive(Request("join", ch, data))
    /\ IF data.code \in DOMAIN sessions
       THEN /\ rooms' = [rooms EXCEPT ![data.code] = @ \cup {ch}]
            /\ pc' = [pc EXCEPT ![ch] = "join_emit"]
            /\ loc' = [loc EXCEPT ![ch] = [data |-> data]]
            /\ UNCHANGED inbox
       ELSE /\ inbox' = EmitTo(ch, ErrorEvent)
            /\ UNCHANGED <<rooms, pc, loc>>
    /\ UNCHANGED <<sessions, nextId>>

\* emit('joined', ...)
join_emit(ch) ==
    /\ pc[ch] = "join_emit"
    /\ inbox' = EmitTo(ch, JoinedEvent(loc[ch].data.code,
                                       sessions[loc[ch].data.code].feedbacks))
    /\ pc' = [pc EXCEPT ![ch] = "idle"]
    /\ loc' = [loc EXCEPT ![ch] = Idle]
    /\ UNCHANGED <<sessions, rooms, nextId, nreq, last>>

\* on_new_feedback up to the append
feedback_begin(ch, data) ==
    LET code == data.code
        text == strip(data.text)
    IN  /\ pc[ch] = "idle"
        /\ Receive(Request("new_feedback", ch, data))
        /\ IF Rejected(code, text)
           THEN UNCHANGED <<sessions, nextId, pc, loc>>
           ELSE LET fbs == sessions[code].feedbacks IN
                /\ nextId < MaxIds
                /\ nextId' = nextId + 1
                /\ sessions' = WithFeedbacks(code,
                                   Append(fbs, NewFeedback(uuid4, text)))
                /\ pc' = [pc EXCEPT ![ch] = "feedback_emit"]
                /\ loc' = [loc EXCEPT ![ch] =
                              [data |-> data, t |-> <<Len(fbs) + 1, 0>>]]
        /\ UNCHANGED <<rooms, inbox>>

\* emit('feedback_added', feedback, room=code)
feedback_emit(ch) ==
    /\ pc[ch] = "feedback_emit"
    /\ inbox' = EmitRoom(ch, loc[ch].data.code, FeedbackAdded(Held(ch)))
    /\ pc' = [pc EXCEPT ![ch] = "idle"]
    /\ loc' = [loc EXCEPT ![ch] = Idle]
    /\ UNCHANGED <<sessions, rooms, nextId, nreq, last>>

\* on_new_comment up to the append
comment_begin(ch, data) ==
    LET code == data.code
        text == strip(data.text)
    IN  /\ pc[ch] = "idle"
        /\ Receive(Request("new_comment", ch, data))
        /\ IF Rejected(code, text)
           THEN UNCHANGED <<sessions, nextId, pc, loc>>
           ELSE LET fbs == sessions[code].feedbacks
                    i == FindById(fbs, data.feedback_id)
                IN  IF i = 0
                    THEN UNCHANGED <<sessions, nextId, pc, loc>>
                    ELSE /\ nextId < MaxIds
                         /\ nextId' = nextId + 1
                         /\ sessions' = WithFeedbacks(code,
                                [fbs EXCEPT ![i].comments =
                                     Append(@, NewComment(uuid4, text))])
                         /\ pc' = [pc EXCEPT ![ch] = "comment_emit"]
                         /\ loc' = [loc EXCEPT ![ch] =
                                [data |-> data,
                                 t |-> <<i, Len(fbs[i].comments) + 1>>]]
        /\ UNCHANGED <<rooms, inbox>>

\* emit('comment_added', ..., room=code)
comment_emit(ch) ==
    /\ pc[ch] = "comment_emit"
    /\ inbox' = EmitRoom(ch, loc[ch].data.code,
                         CommentAdded(loc[ch].data.feedback_id, Held(ch)))
    /\ pc' = [pc EXCEPT ![ch] = "idle"]
    /\ loc' = [loc EXCEPT ![ch] = Idle]
    /\ UNCHANGED <<sessions, rooms, nextId, nreq, last>>

\* on_vote up to the membership test `user_id not in entity['voters']`
vote_begin(ch, data) ==
    LET code == data.code
        user_id == UserIdOf(data.user_id)
    IN  /\ pc[ch] = "idle"
        /\ Receive(Request("vote", ch, data))
        /\ IF code \notin DOMAIN sessions
           THEN UNCHANGED <<pc, loc>>
           ELSE LET fbs == sessions[code].feedbacks
                    t == VoteTarget(fbs, data)
                IN  IF t = NoTarget \/ AlreadyVoted(GetEntity(fbs, t), user_id)
                    THEN UNCHANGED <<pc, loc>>
                    ELSE /\ pc' = [pc EXCEPT ![ch] = "vote_append"]
                         /\ loc' = [loc EXCEPT ![ch] = [data |-> data, t |-> t]]
        /\ UNCHANGED <<sessions, rooms, inbox, nextId>>

\* entity['voters'].append(user_id)
vote_append(ch) ==
    /\ pc[ch] = "vote_append"
    /\ sessions' = WithHeld(ch, [Held(ch) EXCEPT
                       !.voters = Append(@, UserIdOf(loc[ch].data.user_id))])
    /\ pc' = [pc EXCEPT ![ch] = "vote_read"]
    /\ UNCHANGED <<rooms, inbox, nextId, nreq, last, loc>>

\* entity['votes'] += 1 : the read
vote_read(ch) ==
    /\ pc[ch] = "vote_read"
    /\ loc' = [loc EXCEPT ![ch] =
                  [data |-> loc[ch].data, t |-> loc[ch].t, votes |-> Held(ch).votes]]
    /\ pc' = [pc EXCEPT ![ch] = "vote_write"]
    /\ UNCHANGED <<sessions, rooms, inbox, nextId, nreq, last>>

\* entity['votes'] += 1 : the write
vote_write(ch) ==
    /\ pc[ch] = "vote_write"
    /\ sessions' = WithHeld(ch, [Held(ch) EXCEPT !.votes = loc[ch].votes + 1])
    /\ pc' = [pc EXCEPT ![ch] = "vote_emit"]
    /\ UNCHANGED <<rooms, inbox, nextId, nreq, last, loc>>

\* emit('vote_updated', {..., 'votes': entity['votes'], ...}, room=code)
vote_emit(ch) ==
    /\ pc[ch] = "vote_emit"
    /\ inbox' = EmitRoom(ch, loc[ch].data.code,
                         VoteEvent(loc[ch].data, Held(ch).votes))
    /\ pc' = [pc EXCEPT ![ch] = "idle"]
    /\ loc' = [loc EXCEPT ![ch] = Idle]
    /\ UNCHANGED <<sessions, rooms, nextId, nreq, last>>

NextConc ==
    \/ \E w \in Workers : create_begin(w)
    \/ \E w \in Workers : create_insert(w)
    \/ \E code \in Codes : close_session_quiet(code)
    \/ \E ch \in Channels, data \in JoinArgs : join_begin(ch, data)
    \/ \E ch \in Channels : join_emit(ch)
    \/ \E ch \in Channels, data \in FeedbackArgs : feedback_begin(ch, data)
    \/ \E ch \in Channels : feedback_emit(ch)
    \/ \E ch \in Channels, data \in CommentArgs : comment_begin(ch, data)
    \/ \E ch \in Channels : comment_emit(ch)
    \/ \E ch \in Channels, data \in VoteArgs : vote_begin(ch, data)
    \/ \E ch \in Channels : vote_append(ch)
    \/ \E ch \in Channels : vote_read(ch)
    \/ \E ch \in Channels : vote_write(ch)
    \/ \E ch \in Channels : vote_emit(ch)

SpecConc == Init /\ [][NextConc]_vars

\* ------------------------------------------------- export specification
\* export_session applied to sessions drawn from a bounded set: up to MaxItems
\* feedback items with 0 to 2 votes each and 0 to 2 comments each, the second
\* comment with more votes than the first. Texts differ from item to item, so that
\* a line of the document names its item.

Repeat(char, n) == [k \in 1..n |-> char]

\* the voters behind a vote count of v
VotersFor(v) == SubSeq(<<"u1", "anonymous">>, 1, v)

ExportComment(i, j) ==
    [id |-> 10 * i + j, text |-> Repeat("c", j) \o Repeat("x", i),
     votes |-> j - 1, voters |-> VotersFor(j - 1)]

ExportItem(i, votes, ncomments) ==
    [id |-> i, text |-> Repeat("x", i), votes |-> votes, voters |-> VotersFor(votes),
     comments |-> [j \in 1..ncomments |-> ExportComment(i, j)]]

ExportInputs ==
    UNION {{[i \in 1..n |-> ExportItem(i, f[i][1], f[i][2])] :
               f \in [1..n -> (0..2) \X (0..2)]} : n \in 0..MaxItems}

InitExport ==
    /\ sessions \in {[c \in {1} |-> [feedbacks |-> fbs]] : fbs \in ExportInputs}
    /\ rooms = [c \in Codes |-> {}]
    /\ inbox = [c \in Channels |-> << >>]
    /\ nextId = 0
    /\ nreq = 0
    /\ last = [op |-> "none"]
    /\ pc = [c \in Threads |-> "idle"]
    /\ loc = [c \in Threads |-> Idle]

NextExport == \E code \in Codes : export_session(code)

SpecExport == InitExport /\ [][NextExport]_vars

\* ================================================================ claims

\* the feedback items and comments of a feedback list
EntitiesOf(fbs) ==
    {<<"feedback", fbs[i]>> : i \in 1..Len(fbs)}
    \cup UNION {{<<"comment", fbs[i].comments[j]>> : j \in 1..Len(fbs[i].comments)} :
                i \in 1..Len(fbs)}

\* every feedback item and comment in the store
AllEntities == UNION {EntitiesOf(sessions[c].feedbacks) : c \in DOMAIN sessions}

VoterSet(e) == {e.voters[i] : i \in 1..Len(e.voters)}

NoRepeatedVoter(e) ==
    \A i, j \in 1..Len(e.voters) : e.voters[i] = e.voters[j] => i = j

AllIdle == \A ch \in Channels : pc[ch] = "idle"

\* the entity a vote request addresses in the store, as a set (empty when none)
Addressed(store, data) ==
    IF data.code \notin DOMAIN store THEN {}
    ELSE LET fbs == store[data.code].feedbacks
             t == VoteTarget(fbs, data)
         IN  IF t = NoTarget THEN {} ELSE {GetEntity(fbs, t)}

\* C1: in every state reached by a sequence of create-session, new_feedback,
\* new_comment, vote and close events, each feedback item and each comment has a
\* vote count equal to the number of distinct voters recorded for it, and no voter
\* is recorded for it twice.
VoteCountMatchesVoters ==
    \A x \in AllEntities :
        /\ x[2].votes = Cardinality(VoterSet(x[2]))
        /\ NoRepeatedVoter(x[2])

\* a feedback item and one of its comments each carry one vote
C1_Witness ==
    \E c \in DOMAIN sessions :
        \E i \in 1..Len(sessions[c].feedbacks) :
            LET fb == sessions[c].feedbacks[i] IN
            /\ fb.votes = 1
            /\ \E j \in 1..Len(fb.comments) : fb.comments[j].votes = 1

\* C3: a vote by a voter already recorded for the entity leaves the entity's vote
\* count and voters (and the rest of the store) unchanged, and nothing is broadcast.
RepeatedVoteChangesNothing ==
    [][ (/\ last'.op = "vote"
         /\ \E e \in Addressed(sessions, last'.data) :
               UserIdOf(last'.data.user_id) \in VoterSet(e))
        => (sessions' = sessions /\ inbox' = inbox) ]_vars

\* the last request is a vote by the first of two recorded voters of its entity:
\* a repeat made after another voter's vote
C3_Witness ==
    /\ last.op = "vote"
    /\ \E e \in Addressed(sessions, last.data) :
          /\ Len(e.voters) = 2
          /\ e.votes = 2
          /\ e.voters[1] = UserIdOf(last.data.user_id)

\* ---- events a step delivers

\* channel c received exactly one more event in this step
GotEvent(c) ==
    /\ Len(inbox'[c]) = Len(inbox[c]) + 1
    /\ SubSeq(inbox'[c], 1, Len(inbox[c])) = inbox[c]

NewEvent(c) == inbox'[c][Len(inbox'[c])]

\* C4: after close_session(code) no channel is still a member of code's room.
CloseEvictsRoom ==
    last.op = "close_session" => rooms[last.code] = {}

\* what a snapshot shows of a feedback list: the items in order, each with its
\* vote count and its comments with their vote counts
SnapshotView(fbs) ==
    [i \in 1..Len(fbs) |->
        [id |-> fbs[i].id, text |-> fbs[i].text, votes |-> fbs[i].votes,
         comments |-> [j \in 1..Len(fbs[i].comments) |->
                          [id |-> fbs[i].comments[j].id,
                           text |-> fbs[i].comments[j].text,
                           votes |-> fbs[i].comments[j].votes]]]]

\* C6: a join on an existing session sends the caller one 'joined' event holding
\* exactly the session's feedback items at that moment, in insertion order, each
\* with its vote count and its comments with their vote counts.
JoinSendsSnapshot ==
    [][ (last'.op = "join" /\ last'.data.code \in DOMAIN sessions)
        => /\ GotEvent(last'.ch)
           /\ NewEvent(last'.ch).type = "joined"
           /\ NewEvent(last'.ch).code = last'.data.code
           /\ SnapshotView(NewEvent(last'.ch).feedbacks)
                = SnapshotView(sessions[last'.data.code].feedbacks) ]_vars

\* the last request is a join answered with a snapshot of two items, one of them
\* voted on
C6_Witness ==
    /\ last.op = "join"
    /\ Len(inbox[last.ch]) > 0
    /\ LET m == inbox[last.ch][Len(inbox[last.ch])] IN
       /\ m.type = "joined"
       /\ Len(m.feedbacks) = 2
       /\ \E i \in 1..2 : m.feedbacks[i].votes = 1

\* ---- C7

\* the step commits a new_feedback, new_comment or vote
MutationStep ==
    /\ last'.op \in {"new_feedback", "new_comment", "vote"}
    /\ sessions' # sessions

EventTypeOf(op) ==
    CASE op = "new_feedback" -> "feedback_added"
      [] op = "new_comment"  -> "comment_added"
      [] op = "vote"         -> "vote_updated"

\* every member of the room receives the event of the mutation, the same for all
RoomReceives(code, op) ==
    /\ \A c \in rooms[code] : GotEvent(c) /\ NewEvent(c).type = EventTypeOf(op)
    /\ \A c, d \in rooms[code] : NewEvent(c) = NewEvent(d)

\* C7 as stated: the broadcast of a successful new_feedback, new_comment or vote
\* reaches every member of the room, and the originating channel receives it.
BroadcastReachesRoomAndOriginator ==
    [][ MutationStep
        => /\ RoomReceives(last'.data.code, last'.op)
           /\ GotEvent(last'.ch) ]_vars

\* C7 amended: the broadcast reaches every member of the room; the originating
\* channel receives it exactly when it is a member of the room.
BroadcastReachesRoom ==
    [][ MutationStep
        => /\ RoomReceives(last'.data.code, last'.op)
           /\ (last'.ch \in rooms[last'.data.code] <=> GotEvent(last'.ch)) ]_vars

\* four requests (create, two joins, new_feedback) put both channels in the room
\* and delivered the new item to both, the sender included
C7_Witness ==
    /\ nreq = 4
    /\ last.op = "new_feedback"
    /\ rooms[last.data.code] = Channels
    /\ \A c \in Channels :
          /\ Len(inbox[c]) = 2
          /\ inbox[c][2].type = "feedback_added"
          /\ inbox[c][2].item.text = strip(last.data.text)

\* ---- C9

OnlyWhitespace(text) == \A i \in 1..Len(text) : text[i] \in Whitespace

\* C9: a new_feedback or new_comment whose text is empty or only whitespace changes
\* nothing in the store, allocates no identifier and delivers no event.
BlankTextChangesNothing ==
    [][ (/\ last'.op \in {"new_feedback", "new_comment"}
         /\ OnlyWhitespace(last'.data.text))
        => /\ sessions' = sessions
           /\ nextId' = nextId
           /\ inbox' = inbox
           /\ rooms' = rooms ]_vars

\* the last request carries a non-empty whitespace-only text for a feedback item
\* that exists in an open session with a channel in its room
C9_Witness ==
    /\ last.op = "new_comment"
    /\ last.data.text # << >>
    /\ OnlyWhitespace(last.data.text)
    /\ last.data.code \in DOMAIN sessions
    /\ rooms[last.data.code] # {}
    /\ FindById(sessions[last.data.code].feedbacks, last.data.feedback_id) # 0

\* ---- C10

\* the request names a session, feedback item or comment that does not exist
NamesUnknown(request) ==
    \/ request.data.code \notin DOMAIN sessions
    \/ /\ request.op = "new_comment"
       /\ FindById(sessions[request.data.code].feedbacks,
                   request.data.feedback_id) = 0
    \/ /\ request.op = "vote"
       /\ Addressed(sessions, request.data) = {}

\* C10: a new_feedback, new_comment or vote naming an unknown session, feedback
\* item or comment sends the caller an error event and leaves the state unchanged.
UnknownTargetIsReported ==
    [][ (/\ last'.op \in {"new_feedback", "new_comment", "vote"}
         /\ NamesUnknown(last'))
        => /\ GotEvent(last'.ch)
           /\ NewEvent(last'.ch).type = "error"
           /\ sessions' = sessions
           /\ rooms' = rooms ]_vars

\* ---- C2

\* C2: once the vote handlers have finished, an entity that only distinct voters
\* voted on has every one of them counted: its vote count is the number of its
\* recorded voters.
NoLostVote ==
    AllIdle =>
        \A x \in AllEntities :
            NoRepeatedVoter(x[2]) => x[2].votes = Len(x[2].voters)

\* ---- C5, C8: what a channel has been sent

EventTypes == {"feedback_added", "comment_added", "vote_updated"}

IdsOf(fbs) == {x[2].id : x \in EntitiesOf(fbs)}

\* the vote count message m reports for entity id, -1 when m does not report on it
VotesIn(m, id) ==
    CASE m.type = "joined" ->
            IF id \in IdsOf(m.feedbacks)
            THEN (CHOOSE x \in EntitiesOf(m.feedbacks) : x[2].id = id)[2].votes
            ELSE -1
      [] m.type = "feedback_added" -> IF m.item.id = id THEN m.item.votes ELSE -1
      [] m.type = "comment_added" -> IF m.comment.id = id THEN m.comment.votes ELSE -1
      [] m.type = "vote_updated" -> IF m.item_id = id THEN m.votes ELSE -1
      [] OTHER -> -1

\* the snapshots channel ch was sent for session code, as positions in its inbox
Snapshots(ch, code) ==
    {k \in 1..Len(inbox[ch]) :
        inbox[ch][k].type = "joined" /\ inbox[ch][k].code = code}

Max(S) == CHOOSE k \in S : \A j \in S : j <= k

\* no event reaches a channel before its first snapshot
SnapshotFirst(ch) ==
    \A j \in 1..Len(inbox[ch]) :
        inbox[ch][j].type \in EventTypes
            => \E k \in 1..(j - 1) : inbox[ch][k].type = "joined"

\* no event after a snapshot repeats what the snapshot already holds
NoDuplicate(ch) ==
    \A k \in 1..Len(inbox[ch]) : \A j \in (k + 1)..Len(inbox[ch]) :
        LET snap == inbox[ch][k]
            m == inbox[ch][j]
        IN  snap.type = "joined" =>
              /\ m.type = "feedback_added" => m.item.id \notin IdsOf(snap.feedbacks)
              /\ m.type = "comment_added" => m.comment.id \notin IdsOf(snap.feedbacks)
              /\ m.type = "vote_updated" => m.votes > VotesIn(snap, m.item_id)

\* with no handler at work on the session, a member that was sent a snapshot has
\* been told of every entity and of its current vote count, by the latest snapshot
\* or by an event after it
NoGap(ch) ==
    \A code \in DOMAIN sessions :
        (/\ ch \in rooms[code]
         /\ Snapshots(ch, code) # {}
         /\ \A c \in Channels : ~Working(c, code))
        => LET k == Max(Snapshots(ch, code)) IN
           \A x \in EntitiesOf(sessions[code].feedbacks) :
               LET told == {j \in k..Len(inbox[ch]) :
                               VotesIn(inbox[ch][j], x[2].id) # -1}
               IN  /\ told # {}
                   /\ VotesIn(inbox[ch][Max(told)], x[2].id) = x[2].votes

\* C5: a channel that joins receives the snapshot first and then exactly the
\* events of the mutations committed after the snapshot was taken.
SnapshotThenLaterEvents ==
    \A ch \in Channels : SnapshotFirst(ch) /\ NoDuplicate(ch) /\ NoGap(ch)

\* position of the entity id in the order the session committed its appends:
\* feedback items in list order, comments in list order within their item
CommitIndex(fbs, id) ==
    IF FindById(fbs, id) # 0 THEN <<FindById(fbs, id), 0>>
    ELSE LET i == CHOOSE i \in 1..Len(fbs) : FindById(fbs[i].comments, id) # 0
         IN  <<i, FindById(fbs[i].comments, id)>>

AddedId(m) ==
    CASE m.type = "feedback_added" -> m.item.id
      [] m.type = "comment_added" -> m.comment.id
      [] OTHER -> NoId

\* C8: a channel receives the events of one session in the order in which their
\* mutations were committed: appended items (and the comments of one item) in list
\* order, the vote counts of one entity in increasing order, and no vote on an
\* entity before the event that added it.
EventsInCommitOrder ==
    \A ch \in Channels : \A i, j \in 1..Len(inbox[ch]) :
        LET a == inbox[ch][i]
            b == inbox[ch][j]
        IN  i < j =>
            /\ (a.type = "feedback_added" /\ b.type = "feedback_added")
                => \A c \in DOMAIN sessions :
                      {a.item.id, b.item.id} \subseteq IdsOf(sessions[c].feedbacks)
                      => CommitIndex(sessions[c].feedbacks, a.item.id)[1]
                           < CommitIndex(sessions[c].feedbacks, b.item.id)[1]
            /\ (a.type = "comment_added" /\ b.type = "comment_added"
                /\ a.feedback_id = b.feedback_id)
                => \A c \in DOMAIN sessions :
                      {a.comment.id, b.comment.id} \subseteq IdsOf(sessions[c].feedbacks)
                      => CommitIndex(sessions[c].feedbacks, a.comment.id)[2]
                           < CommitIndex(sessions[c].feedbacks, b.comment.id)[2]
            /\ (a.type = "vote_updated" /\ b.type = "vote_updated"
                /\ a.item_id = b.item_id)
                => a.votes < b.votes
            /\ (a.type = "vote_updated" /\ b.type \in {"feedback_added", "comment_added"})
                => a.item_id # AddedId(b)

\* ---- C11

\* C11: a closed code is out of the store, and a code that is not in the store
\* stays out until create_session hands it out; meanwhile get_session and
\* export_session answer not-found for it, and a join on it sends the caller the
\* session-not-found error and adds nobody to a room.
ClosedCodeIsNotFound ==
    [][ /\ last'.op = "close_session" => last'.code \notin DOMAIN sessions'
        /\ \A c \in Codes \ DOMAIN sessions :
              /\ c \in DOMAIN sessions'
                    => (last'.op = "create_session" /\ last'.code = c)
              /\ (last'.op \in {"get_session", "export_session"} /\ last'.code = c)
                    => last'.response = NotFoundResponse
              /\ (last'.op = "join" /\ last'.data.code = c)
                    => /\ GotEvent(last'.ch)
                       /\ NewEvent(last'.ch) = ErrorEvent
                       /\ rooms' = rooms ]_vars

\* get_session answered not-found for a code whose room still has a member: the
\* session was open when that channel joined, and has been closed since
C11_Witness ==
    /\ last.op = "get_session"
    /\ last.response = NotFoundResponse
    /\ last.code \notin DOMAIN sessions
    /\ rooms[last.code] # {}

\* ---- C12

\* C12: a join on a code that is not in the store sends the error event to the
\* caller and to nobody else, adds the caller to no room and leaves the store as
\* it is.
UnknownJoinAnswersCallerOnly ==
    [][ (last'.op = "join" /\ last'.data.code \notin DOMAIN sessions)
        => /\ inbox' = [inbox EXCEPT ![last'.ch] = Append(@, ErrorEvent)]
           /\ rooms' = rooms
           /\ sessions' = sessions ]_vars

\* the last request is a join on an unknown code, answered with the error, while
\* another channel sits in the room of an open session and got no error
C12_Witness ==
    /\ last.op = "join"
    /\ last.data.code \notin DOMAIN sessions
    /\ inbox[last.ch] # << >>
    /\ inbox[last.ch][Len(inbox[last.ch])] = ErrorEvent
    /\ \E d \in Channels \ {last.ch} :
          /\ \E c \in DOMAIN sessions : d \in rooms[c]
          /\ \A k \in 1..Len(inbox[d]) : inbox[d][k].type # "error"

\* ---- C13: reading the exported document

\* the positions of the lines tagged `tag`, in order, from position k on
RECURSIVE PositionsFrom(_, _, _)
PositionsFrom(lines, tag, k) ==
    IF k > Len(lines) THEN << >>
    ELSE (IF lines[k][1] = tag THEN << k >> ELSE << >>)
         \o PositionsFrom(lines, tag, k + 1)

IsCommentLine(line) == line[1] = "comment"

\* the lines of the n-th listed item: from its heading up to the next heading
Section(lines, n) ==
    LET pos == PositionsFrom(lines, "item", 1)
    IN  SubSeq(lines, pos[n],
               IF n < Len(pos) THEN pos[n + 1] - 1 ELSE Len(lines))

\* the place in fbs of the item whose text is `text`
Origin(fbs, text) == CHOOSE p \in 1..Len(fbs) : fbs[p].text = text

\* the document lists every item of fbs once, numbered from 1 with its vote count,
\* by descending votes and among equal votes by place in fbs, and under each item
\* its comments in their order in the item
ListsRanked(lines, fbs) ==
    LET n == Len(PositionsFrom(lines, "item", 1))
        o(k) == Origin(fbs, Section(lines, k)[1][3])
    IN  /\ n = Len(fbs)
        /\ \A k \in 1..n :
              LET sec == Section(lines, k) IN
              /\ \E p \in 1..Len(fbs) : fbs[p].text = sec[1][3]
              /\ sec[1][2] = k
              /\ sec[2] = <<"votes", fbs[o(k)].votes>>
              /\ SelectSeq(sec, IsCommentLine)
                   = [j \in 1..Len(fbs[o(k)].comments) |->
                        <<"comment", fbs[o(k)].comments[j].text,
                          fbs[o(k)].comments[j].votes>>]
        /\ \A k, m \in 1..n :
              k < m => \/ fbs[o(k)].votes > fbs[o(m)].votes
                       \/ fbs[o(k)].votes = fbs[o(m)].votes /\ o(k) < o(m)

\* C13: export_session lists the feedback items by vote count descending, items
\* with equal votes in insertion order, and each item's comments in insertion
\* order whatever their votes.
ExportIsStableRanking ==
    (last.op = "export_session" /\ last.response.status = 200)
        => ListsRanked(last.response.markdown, sessions[last.code].feedbacks)

\* items with 1, 2 and 1 votes were exported as second, first, third; the first
\* item has two comments, the later one with more votes
C13_Witness ==
    /\ last.op = "export_session"
    /\ last.response.status = 200
    /\ LET fbs == sessions[last.code].feedbacks
           lines == last.response.markdown
       IN  /\ Len(fbs) = 3
           /\ <<fbs[1].votes, fbs[2].votes, fbs[3].votes>> = <<1, 2, 1>>
           /\ Len(fbs[1].comments) = 2
           /\ fbs[1].comments[1].votes < fbs[1].comments[2].votes
           /\ Section(lines, 1)[1][3] = fbs[2].text
           /\ Section(lines, 2)[1][3] = fbs[1].text
           /\ Section(lines, 3)[1][3] = fbs[3].text

\* ---- C14

\* the identifiers of every feedback item and comment in the store
StoredIds == {e[2].id : e \in AllEntities}

\* C14: a new_feedback with non-blank text for an open session appends exactly one
\* item to that session's list, with an identifier no stored item or comment has,
\* zero votes, no voters and no comments; the items already listed and the other
\* sessions stay as they were; the event delivered to the room carries the item
\* that is in the list.
AddFeedbackAppendsFreshItem ==
    [][ (/\ last'.op = "new_feedback"
         /\ last'.data.code \in DOMAIN sessions
         /\ ~OnlyWhitespace(last'.data.text))
        => LET code == last'.data.code
               fbs  == sessions[code].feedbacks
               fbs2 == sessions'[code].feedbacks
               item == fbs2[Len(fbs2)]
           IN  /\ DOMAIN sessions' = DOMAIN sessions
               /\ Len(fbs2) = Len(fbs) + 1
               /\ SubSeq(fbs2, 1, Len(fbs)) = fbs
               /\ item.id \notin StoredIds
               /\ item.text = strip(last'.data.text)
               /\ item.votes = 0
               /\ item.voters = << >>
               /\ item.comments = << >>
               /\ \A c \in DOMAIN sessions \ {code} : sessions'[c] = sessions[c]
               /\ \A c \in rooms[code] :
                     GotEvent(c) /\ NewEvent(c) = FeedbackAdded(item) ]_vars

\* a second item was appended behind one that already has a vote, with another
\* identifier, and a member of the room was handed the appended item
C14_Witness ==
    /\ last.op = "new_feedback"
    /\ last.data.code \in DOMAIN sessions
    /\ LET fbs == sessions[last.data.code].feedbacks IN
       /\ Len(fbs) = 2
       /\ fbs[1].votes = 1
       /\ fbs[2] = NewFeedback(fbs[2].id, strip(last.data.text))
       /\ fbs[2].id # fbs[1].id
       /\ \E c \in rooms[last.data.code] :
             /\ inbox[c] # << >>
             /\ inbox[c][Len(inbox[c])] = FeedbackAdded(fbs[2])

\* ---- C15

\* the places in fbs of the items whose identifier is id
PlacesOf(fbs, id) == {i \in 1..Len(fbs) : fbs[i].id = id}

\* C15: a new_comment with non-blank text for an open session appends one comment,
\* with a fresh identifier, zero votes and no voters, to the item whose identifier
\* is feedback_id and to no other item, and hands it to the room; when no item of
\* the session has that identifier, nothing is stored and nothing is delivered.
AddCommentTouchesOnlyTarget ==
    [][ (/\ last'.op = "new_comment"
         /\ last'.data.code \in DOMAIN sessions
         /\ ~OnlyWhitespace(last'.data.text))
        => LET code == last'.data.code
               fbs  == sessions[code].feedbacks
               fbs2 == sessions'[code].feedbacks
               at   == PlacesOf(fbs, last'.data.feedback_id)
           IN  IF at = {}
               THEN /\ sessions' = sessions
                    /\ inbox' = inbox
                    /\ rooms' = rooms
               ELSE /\ DOMAIN sessions' = DOMAIN sessions
                    /\ \A c \in DOMAIN sessions \ {code} : sessions'[c] = sessions[c]
                    /\ Len(fbs2) = Len(fbs)
                    /\ \A i \in 1..Len(fbs) \ at : fbs2[i] = fbs[i]
                    /\ \A i \in at :
                          LET comment == fbs2[i].comments[Len(fbs2[i].comments)] IN
                          /\ fbs2[i] = [fbs[i] EXCEPT !.comments = Append(@, comment)]
                          /\ comment.id \notin StoredIds
                          /\ comment = NewComment(comment.id, strip(last'.data.text))
                          /\ \A c \in rooms[code] :
                                /\ GotEvent(c)
                                /\ NewEvent(c) = CommentAdded(fbs[i].id, comment) ]_vars

\* the session lists two items; the last request commented on the second one, the
\* first one has no comment, and a member of the room was handed the comment
C15_Witness ==
    /\ last.op = "new_comment"
    /\ last.data.code \in DOMAIN sessions
    /\ LET fbs == sessions[last.data.code].feedbacks IN
       /\ Len(fbs) = 2
       /\ fbs[2].id = last.data.feedback_id
       /\ fbs[1].comments = << >>
       /\ Len(fbs[2].comments) = 1
       /\ \E c \in rooms[last.data.code] :
             /\ inbox[c] # << >>
             /\ inbox[c][Len(inbox[c])] = CommentAdded(fbs[2].id, fbs[2].comments[1])

\* ---- C16

\* C16: the insert of create_session, also when another create_session ran between
\* its check and its insert, stores under a code that is not in the store, leaves
\* the sessions of the store as they were and adds one session with an empty list.
CreateNeverReplaces ==
    [][ \A w \in Workers :
          (pc[w] = "create_insert" /\ pc'[w] = "idle")
          => /\ loc[w].code \notin DOMAIN sessions
             /\ \A c \in DOMAIN sessions : sessions'[c] = sessions[c]
             /\ sessions'[loc[w].code] = [feedbacks |-> << >>] ]_vars

\* ---- C17

\* C17: get_session and export_session, for a known or an unknown code, leave the
\* store with every item, comment, vote count and voter record, the rooms and the
\* inboxes as they were, and hand out no identifier.
ReadsChangeNothing ==
    [][ last'.op \in {"get_session", "export_session"}
        => /\ sessions' = sessions
           /\ rooms' = rooms
           /\ inbox' = inbox
           /\ nextId' = nextId ]_vars

\* the last request exported a session whose second item has more votes than its
\* first: the document lists the two in the other order, the store as before
C17_Witness ==
    /\ last.op = "export_session"
    /\ last.response.status = 200
    /\ LET fbs == sessions[last.code].feedbacks
           lines == last.response.markdown
       IN  /\ Len(fbs) = 2
           /\ fbs[1].votes < fbs[2].votes
           /\ Section(lines, 1)[2] = <<"votes", fbs[2].votes>>
           /\ Section(lines, 2)[2] = <<"votes", fbs[1].votes>>

\* ---- C18

\* the session code a request is about
CodeOf(request) ==
    IF request.op = "close_session" THEN request.code ELSE request.data.code

\* C18: a new_feedback, new_comment, vote or close on session code c, accepted or
\* not, leaves every other session in the store as it was and delivers nothing to
\* a channel outside the room of c.
OtherSessionsUntouched ==
    [][ last'.op \in {"new_feedback", "new_comment", "vote", "close_session"}
        => LET c == CodeOf(last') IN
           /\ \A d \in DOMAIN sessions \ {c} :
                 d \in DOMAIN sessions' /\ sessions'[d] = sessions[d]
           /\ DOMAIN sessions' \subseteq DOMAIN sessions
           /\ \A ch \in Channels \ rooms[c] : inbox'[ch] = inbox[ch] ]_vars

\* two sessions are open; the last request added an item to one of them, and a
\* channel that is in the room of the other one only, which lists an item too,
\* still has nothing but the snapshot of its join
C18_Witness ==
    /\ last.op = "new_feedback"
    /\ DOMAIN sessions = Codes
    /\ LET c == last.data.code IN
       /\ Len(sessions[c].feedbacks) = 1
       /\ sessions[c].feedbacks[1].id = nextId
       /\ \E d \in Codes \ {c}, ch \in Channels :
             /\ Len(sessions[d].feedbacks) = 1
             /\ ch \in rooms[d] \ rooms[c]
             /\ inbox[ch] = << JoinedEvent(d, sessions[d].feedbacks) >>

\* ---- C19

\* entity e2 is entity e later: same identifier and text, no vote and no voter less
KeepsVotes(e, e2) ==
    /\ e2.id = e.id
    /\ e2.text = e.text
    /\ e2.votes >= e.votes
    /\ VoterSet(e) \subseteq VoterSet(e2)

\* feedback list fbs2 is fbs later: every item and every comment of fbs is at its
\* place in fbs2
GrownFrom(fbs, fbs2) ==
    /\ Len(fbs) <= Len(fbs2)
    /\ \A i \in 1..Len(fbs) :
          /\ KeepsVotes(fbs[i], fbs2[i])
          /\ Len(fbs[i].comments) <= Len(fbs2[i].comments)
          /\ \A j \in 1..Len(fbs[i].comments) :
                KeepsVotes(fbs[i].comments[j], fbs2[i].comments[j])

\* the step stores a new session under code
Inserts(code) ==
    \/ code \notin DOMAIN sessions
    \/ \E w \in Workers :
          pc[w] = "create_insert" /\ pc'[w] = "idle" /\ loc[w].code = code

\* C19: from one state of an open session to the next, the feedback list and each
\* comment list only grow at the end, identifiers and texts stay, and no vote count
\* and no voter set gets smaller.
TreeOnlyGrows ==
    [][ \A code \in DOMAIN sessions' :
          ~Inserts(code)
          => GrownFrom(sessions[code].feedbacks, sessions'[code].feedbacks) ]_vars

\* ---- C20

\* C20: votes without a user identifier are recorded under "anonymous" and raise
\* an entity's count by at most 1 in total: an entity with no other voter recorded
\* has a vote count of at most 1.
AnonymousCountsOnce ==
    \A e \in AllEntities :
        VoterSet(e[2]) \subseteq {"anonymous"} => e[2].votes <= 1

====
